---- MODULE Spec2Model ----
(***************************************************************************)
(* Model of edfread/parse.py: the HDF persistence codec (save_h5, load_h5), *)
(* the trial join (trials2events), the decode entry point (read_edf) and    *)
(* the command line converter (convert_edf).                                *)
(*                                                                          *)
(* Text is modelled as a sequence of code points, so that prefix tests,     *)
(* str.split and the sorted order of numpy.unique are computed rather than  *)
(* assumed.  A table cell is a tagged pair: <<"num", <<n>>>> for a number,  *)
(* <<"str", s>> for a text value, <<"nan", <<>>>> for a missing value.      *)
(***************************************************************************)
EXTENDS Integers, Sequences, FiniteSets, TLC

VARIABLES
    data, h5file, saved, loaded, cpc,    \* the persistence codec
    events, messages, joined, jpc,        \* the trial join
    recording, edfargs, ret, retPlain, decoderCalls,    \* read_edf
    cvargs, cvtables, cvpc, outfile       \* convert_edf

codecVars == <<data, h5file, saved, loaded, cpc>>
joinVars == <<events, messages, joined, jpc>>
readVars == <<recording, edfargs, ret, retPlain, decoderCalls>>
convertVars == <<cvargs, cvtables, cvpc, outfile>>

vars == <<codecVars, joinVars, readVars, convertVars>>

(***************************************************************************)
(* Bounds of the checked instances.                                         *)
(***************************************************************************)
\* the cells of a collection of one table, and of a collection of two tables
MaxCells == 4
MaxPairCells == 3
\* the rows of the events table and of the trial metadata table of a join
MaxEvents == 2
MaxMeta == 2
\* the records of a recording
MaxRecords == 3

(***************************************************************************)
(* Text helpers.                                                            *)
(***************************************************************************)
\* the character '_' on which load_h5 splits an attribute name
Underscore == 95

\* the suffix "_mapping" that save_h5 appends to a column name
MappingSuffix == <<95, 109, 97, 112, 112, 105, 110, 103>>

\* s.startswith(p)
StartsWith(s, p) == Len(p) <= Len(s) /\ SubSeq(s, 1, Len(p)) = p

\* a < b in the code point order Python and numpy sort text by
RECURSIVE LexLess(_, _)
LexLess(a, b) ==
    IF b = <<>> THEN FALSE
    ELSE IF a = <<>> THEN TRUE
    ELSE IF Head(a) # Head(b) THEN Head(a) < Head(b)
    ELSE LexLess(Tail(a), Tail(b))

\* the elements of a finite set of texts in ascending order
RECURSIVE SortedSeq(_)
SortedSeq(S) ==
    IF S = {} THEN <<>>
    ELSE LET m == CHOOSE x \in S : \A y \in S \ {x} : LexLess(x, y)
         IN <<m>> \o SortedSeq(S \ {m})

Range(f) == {f[i] : i \in DOMAIN f}

(***************************************************************************)
(* A Python dict is the sequence of its (key, value) items in insertion     *)
(* order.                                                                   *)
(***************************************************************************)
\* d[key]
DictGet(dict, key) ==
    LET i == CHOOSE j \in DOMAIN dict : dict[j][1] = key IN dict[i][2]

\* key in d
DictHas(dict, key) == \E j \in DOMAIN dict : dict[j][1] = key

\* d[key] = value on a dict: replace in place, or append
DictSet(dict, key, value) ==
    IF \E j \in DOMAIN dict : dict[j][1] = key
    THEN [j \in DOMAIN dict |-> IF dict[j][1] = key THEN <<key, value>> ELSE dict[j]]
    ELSE Append(dict, <<key, value>>)


(***************************************************************************)
(* Cells, columns, tables.                                                  *)
(***************************************************************************)
NumCell(n) == <<"num", <<n>>>>
StrCell(s) == <<"str", s>>
NaN == <<"nan", <<>>>>

IsNum(c) == c[1] = "num"
IsStr(c) == c[1] = "str"

\* "", "a", "b"
Texts == {<<>>, <<97>>, <<98>>}
Numbers == 0..1

\* "g", "x", "g_x"
ColumnNames == {<<103>>, <<120>>, <<103, 95, 120>>}
TableNames == {"events", "messages"}

\* homogeneous columns of n rows: all numeric or all text
Columns(n) ==
    [1..n -> {NumCell(v) : v \in Numbers}] \cup [1..n -> {StrCell(s) : s \in Texts}]

\* the tables of at most c cells
TablesUpTo(c) ==
    UNION { UNION { [cs -> Columns(n)] :
                    n \in {m \in 1..c : m * Cardinality(cs) <= c} } :
            cs \in (SUBSET ColumnNames) \ {{}} }

NRows(table) == Len(table[CHOOSE f \in DOMAIN table : TRUE])
Cells(table) == Cardinality(DOMAIN table) * NRows(table)

EmptyData == [name \in {} |-> {}]

\* the table collections: none, one table, or the two tables together
DataInputs ==
    {EmptyData}
    \cup UNION { [{name} -> TablesUpTo(MaxCells)] : name \in TableNames }
    \cup UNION { { [name \in TableNames |->
                      IF name = "events" THEN t1 ELSE t2] :
                   t2 \in TablesUpTo(MaxPairCells - Cells(t1)) } :
                 t1 \in TablesUpTo(MaxPairCells - 1) }

(***************************************************************************)
(* save_h5                                                                  *)
(***************************************************************************)
\* h5py's create_dataset accepts the column as it is: no TypeError
NativelyNumeric(column) == \A i \in DOMAIN column : IsNum(column[i])

\* table[field].values.astype(str)
RECURSIVE DecimalDigits(_)
DecimalDigits(n) ==
    IF n < 10 THEN <<48 + n>> ELSE DecimalDigits(n \div 10) \o <<48 + (n % 10)>>

AsStr(cell) ==
    IF IsStr(cell) THEN cell[2]
    ELSE IF IsNum(cell) THEN DecimalDigits(cell[2][1])
    ELSE <<110, 97, 110>>

AsTypeStr(column) == [i \in DOMAIN column |-> AsStr(column[i])]

\* np.unique(column): the distinct values, sorted
NpUnique(column) == SortedSeq(Range(column))

\* the mapping built from the rows themselves, without np.unique
RECURSIVE EnumerateInto(_, _, _)
EnumerateInto(dict, column, i) ==
    IF i > Len(column) THEN dict
    ELSE EnumerateInto(DictSet(dict, column[i], i - 1), column, i + 1)

BuildMappingOfRows(column) == EnumerateInto(<<>>, column, 1)

\* dict((key, i) for i, key in enumerate(np.unique(column)))
BuildMapping(column) ==
    LET u == NpUnique(column) IN [i \in DOMAIN u |-> <<u[i], i - 1>>]

\* np.array([mapping[val] for val in column])
Encode(column, mapping) == [i \in DOMAIN column |-> DictGet(mapping, column[i])]

\* json.dumps(mapping): the text of a JSON object, as its token sequence
\* key, value, key, value, ...
RECURSIVE JsonDumps(_)
JsonDumps(dict) ==
    IF dict = <<>> THEN <<>>
    ELSE <<StrCell(Head(dict)[1]), NumCell(Head(dict)[2])>> \o JsonDumps(Tail(dict))

\* f"{field}_mapping"
AttrName(field) == field \o MappingSuffix

\* the data= of the dataset written for one column
DatasetOf(column) ==
    IF NativelyNumeric(column)
    THEN [i \in DOMAIN column |-> column[i][2][1]]
    ELSE LET col == AsTypeStr(column) IN Encode(col, BuildMapping(col))

\* every column, as if the mapping were written outside the except branch
RemappedAll(table) == DOMAIN table

\* the columns that take the except TypeError branch
Remapped(table) == {f \in DOMAIN table : ~NativelyNumeric(table[f])}

\* the group written for one table
GroupOf(table) ==
    [datasets |-> [f \in DOMAIN table |-> DatasetOf(table[f])],
     attrs |-> [k \in {AttrName(f) : f \in Remapped(table)} |->
                  LET f == CHOOSE g \in Remapped(table) : AttrName(g) = k
                  IN JsonDumps(BuildMapping(AsTypeStr(table[f])))]]

\* the container save_h5(d, path) leaves at path
SaveImage(d) == [name \in DOMAIN d |-> GroupOf(d[name])]

\* the file at path: absent, or a container of groups
NoFile == [exists |-> FALSE, groups |-> EmptyData]
Container(groups) == [exists |-> TRUE, groups |-> groups]

\* no load_h5 call has returned yet
NotLoaded == [status |-> "none", tables |-> EmptyData]

(***************************************************************************)
(* load_h5                                                                  *)
(***************************************************************************)
\* field_key.split('_')[0]
RECURSIVE SplitFirst(_)
SplitFirst(s) ==
    IF s = <<>> \/ Head(s) = Underscore THEN <<>>
    ELSE <<Head(s)>> \o SplitFirst(Tail(s))

\* json.loads(mapping_str): the dict of a token sequence key, value, ...
RECURSIVE JsonLoadsInto(_, _)
JsonLoadsInto(dict, tokens) ==
    IF Len(tokens) < 2 THEN dict
    ELSE JsonLoadsInto(DictSet(dict, tokens[1][2], tokens[2][2][1]),
                       SubSeq(tokens, 3, Len(tokens)))

JsonLoads(tokens) == JsonLoadsInto(<<>>, tokens)

\* {v: k for k, v in mapping.items()}
RECURSIVE ReverseInto(_, _)
ReverseInto(dict, items) ==
    IF items = <<>> THEN dict
    ELSE ReverseInto(DictSet(dict, Head(items)[2], Head(items)[1]), Tail(items))

ReverseMapping(mapping) == ReverseInto(<<>>, mapping)

\* Series.map(reverse_mapping): a value that is no key becomes NaN
SeriesMap(column, reverse) ==
    [i \in DOMAIN column |->
        IF IsNum(column[i]) /\ DictHas(reverse, column[i][2][1])
        THEN StrCell(DictGet(reverse, column[i][2][1]))
        ELSE NaN]

\* table_data[key] = value[:] for every dataset, then pd.DataFrame(table_data)
FrameOf(group) ==
    [f \in DOMAIN group.datasets |->
        [i \in DOMAIN group.datasets[f] |-> NumCell(group.datasets[f][i])]]

Raised(exc) == [status |-> exc, tables |-> EmptyData]
Returned(tables) == [status |-> "ok", tables |-> tables]

\* the loop over table.attrs.items(), in h5py's order of attribute names
RECURSIVE ApplyAttrs(_, _, _)
ApplyAttrs(df, keys, attrs) ==
    IF keys = <<>> THEN [status |-> "ok", df |-> df]
    ELSE LET field == SplitFirst(Head(keys))
             reverse == ReverseMapping(JsonLoads(attrs[Head(keys)]))
         IN IF field \notin DOMAIN df
            THEN [status |-> "KeyError", df |-> df]
            ELSE ApplyAttrs([df EXCEPT ![field] = SeriesMap(df[field], reverse)],
                            Tail(keys), attrs)

LoadGroup(group) ==
    ApplyAttrs(FrameOf(group), SortedSeq(DOMAIN group.attrs), group.attrs)

\* what load_h5(path) returns or raises for the file at path
LoadImage(file) ==
    IF ~file.exists THEN Raised("FileNotFoundError")
    ELSE IF \E name \in DOMAIN file.groups : LoadGroup(file.groups[name]).status # "ok"
    THEN Raised("KeyError")
    ELSE Returned([name \in DOMAIN file.groups |-> LoadGroup(file.groups[name]).df])

(***************************************************************************)
(* Containers found on disk that save_h5 need not have written: one group   *)
(* with one integer dataset and at most one mapping attribute.              *)
(***************************************************************************)
MaxFileRows == 2

DictItems == Texts \X Numbers

Dicts ==
    {<<>>} \cup {<<a>> : a \in DictItems}
    \cup UNION { {<<a, b>> : b \in {c \in DictItems : c[1] # a[1]}} : a \in DictItems }

AttrInputs(field) ==
    {[k \in {} |-> <<>>]}
    \cup {[k \in {AttrName(field)} |-> JsonDumps(m)] : m \in Dicts}

FileInputs ==
    UNION { { Container([name \in {"events"} |->
                  [datasets |-> [f \in {field} |-> codes], attrs |-> attrs]]) :
              codes \in UNION {[1..n -> Numbers] : n \in 1..MaxFileRows},
              attrs \in AttrInputs(field) } :
            field \in ColumnNames }

(***************************************************************************)
(* trials2events: events.merge(messages, how="left", on=["trial"]).         *)
(* A merged row holds the columns of its left row and, in right, the        *)
(* columns of the matching right row, or nothing (those columns are NaN).   *)
(***************************************************************************)
MatchesOf(row, right) == SelectSeq(right, LAMBDA r : r.trial = row.trial)

MergedRows(row, matches) ==
    IF matches = <<>> THEN <<[left |-> row, right |-> <<>>]>>
    ELSE [i \in DOMAIN matches |-> [left |-> row, right |-> <<matches[i]>>]]

RECURSIVE LeftMerge(_, _)
LeftMerge(left, right) ==
    IF left = <<>> THEN <<>>
    ELSE MergedRows(Head(left), MatchesOf(Head(left), right))
         \o LeftMerge(Tail(left), right)

\* how="inner": a left row without a match is dropped
RECURSIVE InnerMerge(_, _)
InnerMerge(left, right) ==
    IF left = <<>> THEN <<>>
    ELSE LET m == MatchesOf(Head(left), right)
         IN [i \in DOMAIN m |-> [left |-> Head(left), right |-> <<m[i]>>]]
            \o InnerMerge(Tail(left), right)

trials2eventsInner(evs, msgs) == InnerMerge(evs, msgs)

\* the two tables exchanged: messages.merge(events, ...)
trials2eventsSwapped(evs, msgs) == LeftMerge(msgs, evs)

trials2events(evs, msgs) == LeftMerge(evs, msgs)

Trials == 0..2
EventRows == [trial : Trials, type : {"fixation", "saccade"}]
MetaRows == [trial : Trials, text : {"m1", "m2"}]

SeqsUpTo(S, n) == UNION {[1..k -> S] : k \in 0..n}

(***************************************************************************)
(* edf_read.parse_edf: the record decoder with the trial segmenter and the  *)
(* message filter.  A recording is a sequence of records; the time of a     *)
(* record is its position.  The trial counter is NoTrial before the first   *)
(* marker message and 0 from the first marker message on.                   *)
(***************************************************************************)
\* "T", "TS", "S"
MessageTexts == {<<84>>, <<84, 83>>, <<83>>}

RecordKinds ==
    {[kind |-> "sample", text |-> <<>>], [kind |-> "event", text |-> <<>>]}
    \cup {[kind |-> "message", text |-> t] : t \in MessageTexts}

NoTrial == 0 - 1

NoFilter == [given |-> FALSE, prefixes |-> <<>>]
Filter(prefixes) == [given |-> TRUE, prefixes |-> prefixes]

\* a message is retained iff no filter is given, or the list is empty, or the
\* text starts with one of the prefixes
Retained(text, filter) ==
    \/ ~filter.given
    \/ filter.prefixes = <<>>
    \/ \E i \in DOMAIN filter.prefixes : StartsWith(text, filter.prefixes[i])

\* the counter advances on retained marker messages only
NextTrialOfRetained(trial, text, filter, marker) ==
    IF StartsWith(text, marker) /\ Retained(text, filter) THEN trial + 1 ELSE trial

\* the counter advances on every message that starts with the marker
NextTrial(trial, text, filter, marker) ==
    IF StartsWith(text, marker) THEN trial + 1 ELSE trial

NoTables == [samples |-> <<>>, events |-> <<>>, messages |-> <<>>]

ParseStep(acc, rec, time, ignore_samples, filter, marker) ==
    IF rec.kind = "message"
    THEN LET trial == NextTrial(acc.trial, rec.text, filter, marker)
         IN [acc EXCEPT
               !.trial = trial,
               !.messages = IF Retained(rec.text, filter)
                            THEN Append(@, [time |-> time, trial |-> trial, text |-> rec.text])
                            ELSE @]
    ELSE IF rec.kind = "event"
    THEN [acc EXCEPT !.events = Append(@, [time |-> time, trial |-> acc.trial])]
    ELSE IF ignore_samples THEN acc
    ELSE [acc EXCEPT !.samples = Append(@, [time |-> time])]

RECURSIVE ParseFrom(_, _, _, _, _, _)
ParseFrom(acc, records, time, ignore_samples, filter, marker) ==
    IF time > Len(records) THEN acc
    ELSE ParseFrom(ParseStep(acc, records[time], time, ignore_samples, filter, marker),
                   records, time + 1, ignore_samples, filter, marker)

parse_edf(records, ignore_samples, filter, marker) ==
    LET acc == ParseFrom([trial |-> NoTrial, samples |-> <<>>, events |-> <<>>,
                          messages |-> <<>>],
                         records, 1, ignore_samples, filter, marker)
    IN [samples |-> acc.samples, events |-> acc.events, messages |-> acc.messages]

(***************************************************************************)
(* read_edf                                                                 *)
(***************************************************************************)
\* the decoder is called whether or not the file exists
read_edfUnchecked(file, ignore_samples, message_filter, trial_marker) ==
    [status |-> "ok", decoded |-> TRUE,
     tables |-> parse_edf(file.records, ignore_samples, message_filter, trial_marker)]

\* what read_edf returns or raises, and whether it called the decoder
read_edf(file, ignore_samples, message_filter, trial_marker) ==
    IF ~file.exists
    THEN [status |-> "RuntimeError", decoded |-> FALSE, tables |-> NoTables]
    ELSE [status |-> "ok", decoded |-> TRUE,
          tables |-> parse_edf(file.records, ignore_samples, message_filter, trial_marker)]

NotCalled == [status |-> "none", decoded |-> FALSE, tables |-> NoTables]

\* the files a path can name: none, or a recording of up to MaxRecords records
Recordings ==
    {[exists |-> FALSE, records |-> <<>>]}
    \cup {[exists |-> TRUE, records |-> r] : r \in SeqsUpTo(RecordKinds, MaxRecords)}

\* message_filter: None, [], ["S"], ["TS"]
FilterArgs == {NoFilter, Filter(<<>>), Filter(<<<<83>>>>), Filter(<<<<84, 83>>>>)}

\* trial_marker: "T", "TS"
MarkerArgs == {<<84>>, <<84, 83>>}

\* trial_marker="TRIALID", the default of read_edf, in the alphabet of the model
DefaultMarker == <<84>>

(***************************************************************************)
(* convert_edf                                                              *)
(***************************************************************************)
NoOutput == [exists |-> FALSE, tables |-> EmptyData]

\* DataFrame.to_hdf(path, key, mode=...): "w" truncates the file first
ToHdf(file, key, table, mode) ==
    IF mode = "w" \/ ~file.exists
    THEN [exists |-> TRUE, tables |-> [k \in {key} |-> table]]
    ELSE [exists |-> TRUE,
          tables |-> [k \in DOMAIN file.tables \cup {key} |->
                         IF k = key THEN table ELSE file.tables[k]]]

\* the columns of messages whose dtype is not object
NumericColumns(msgs) == [i \in DOMAIN msgs |-> [time |-> msgs[i].time, trial |-> msgs[i].trial]]

NoArgs == [pandas_hdf |-> FALSE, ignore_samples |-> FALSE, join |-> FALSE]

(***************************************************************************)
(* Each run exercises one part of the module; the others stay at rest.      *)
(***************************************************************************)
CodecIdle ==
    /\ data = EmptyData
    /\ h5file = NoFile
    /\ saved = FALSE
    /\ loaded = NotLoaded
    /\ cpc = "idle"

JoinIdle ==
    /\ events = <<>>
    /\ messages = <<>>
    /\ joined = <<>>
    /\ jpc = "idle"

ReadIdle ==
    /\ recording = [exists |-> FALSE, records |-> <<>>]
    /\ edfargs = [ignore_samples |-> FALSE, message_filter |-> NoFilter,
                  trial_marker |-> DefaultMarker]
    /\ ret = NotCalled
    /\ retPlain = NotCalled
    /\ decoderCalls = 0

ConvertIdle ==
    /\ cvargs = NoArgs
    /\ cvtables = NoTables
    /\ cvpc = "idle"
    /\ outfile = NoOutput

(***************************************************************************)
(* The codec as a state machine: data is the argument of save_h5, h5file    *)
(* the file at path, saved whether save_h5(data, path) has completed,       *)
(* loaded what the last load_h5(path) returned or raised.                   *)
(***************************************************************************)
CodecInit ==
    /\ JoinIdle
    /\ ReadIdle
    /\ ConvertIdle
    /\ \/ data \in DataInputs /\ h5file = NoFile
       \/ data = EmptyData /\ h5file \in FileInputs
    /\ saved = FALSE
    /\ loaded = NotLoaded
    /\ cpc = "start"

SaveH5 ==
    /\ h5file' = Container(SaveImage(data))
    /\ saved' = TRUE
    /\ cpc' = "saved"
    /\ UNCHANGED <<data, loaded, joinVars, readVars, convertVars>>

LoadH5 ==
    /\ loaded' = LoadImage(h5file)
    /\ cpc' = "loaded"
    /\ UNCHANGED <<data, h5file, saved, joinVars, readVars, convertVars>>

CodecNext == SaveH5 \/ LoadH5

CodecSpec == CodecInit /\ [][CodecNext]_vars

(***************************************************************************)
(* Properties of the codec.                                                 *)
(***************************************************************************)
\* the text values of a column of the argument, row by row
TextOf(column) == [i \in DOMAIN column |-> column[i][2]]
HasText(column) == \E i \in DOMAIN column : column[i][1] # "num"

\* the (key, value) entries read off a stored mapping attribute
Entries(tokens) == [j \in 1..(Len(tokens) \div 2) |-> <<tokens[2 * j - 1], tokens[2 * j]>>]

\* load_h5 has just run on the file that save_h5 wrote from data
LoadedSaved == saved /\ cpc = "loaded"

\* C1: load_h5 of the file written by save_h5 returns, under the same table
\* names, tables equal to the originals column by column and element-wise.
C1_RoundTrip == LoadedSaved => loaded = [status |-> "ok", tables |-> data]

\* C3: when a column has mapping metadata and a code of its dataset has no
\* entry in that mapping, load_h5 fails with CorruptMappingError and returns
\* no table in which the code became a missing value.
UnmappedCode(group) ==
    \E f \in DOMAIN group.datasets :
        /\ (f \o MappingSuffix) \in DOMAIN group.attrs
        /\ LET e == Entries(group.attrs[f \o MappingSuffix])
           IN \E i \in DOMAIN group.datasets[f] :
                 \A j \in DOMAIN e : e[j][2] # <<"num", <<group.datasets[f][i]>>>>

C3_CorruptMappingError ==
    (cpc = "loaded" /\ \E name \in DOMAIN h5file.groups : UnmappedCode(h5file.groups[name]))
        => loaded.status = "CorruptMappingError"

\* C5: for every remapped column the stored mapping has one entry per
\* distinct value, the integers are 0..k-1 in sorted order of the values,
\* every stored code is the integer of its row's value, and the column
\* "a", "b", "a", "" gets a mapping of exactly 3 entries.
MappingOK(column, dataset, tokens) ==
    LET e == Entries(tokens)
        values == {column[i][2] : i \in DOMAIN column}
    IN /\ Len(tokens) = 2 * Cardinality(values)
       /\ {e[j][1] : j \in DOMAIN e} = {<<"str", v>> : v \in values}
       /\ \A j \in DOMAIN e : e[j][2] = <<"num", <<j - 1>>>>
       /\ \A j, k \in DOMAIN e : j < k => LexLess(e[j][1][2], e[k][1][2])
       /\ DOMAIN dataset = DOMAIN column
       /\ \A i \in DOMAIN column :
             \E j \in DOMAIN e : e[j] = <<<<"str", column[i][2]>>, <<"num", <<dataset[i]>>>>>>
       /\ (TextOf(column) = <<<<97>>, <<98>>, <<97>>, <<>>>>) => Len(e) = 3

C5_MappingCodes ==
    saved =>
        \A name \in DOMAIN data : \A f \in DOMAIN data[name] :
            HasText(data[name][f]) =>
                /\ name \in DOMAIN h5file.groups
                /\ f \in DOMAIN h5file.groups[name].datasets
                /\ (f \o MappingSuffix) \in DOMAIN h5file.groups[name].attrs
                /\ MappingOK(data[name][f], h5file.groups[name].datasets[f],
                             h5file.groups[name].attrs[f \o MappingSuffix])

C5_Witness ==
    /\ saved
    /\ \E name \in DOMAIN data : \E f \in DOMAIN data[name] :
          /\ HasText(data[name][f])
          /\ TextOf(data[name][f]) = <<<<97>>, <<98>>, <<97>>, <<>>>>
          /\ Len(h5file.groups[name].attrs[f \o MappingSuffix]) = 6

\* C6: after save_h5 the container has one group per table name, each group
\* one dataset per column, and an attribute <column>_mapping exactly for the
\* columns that are not natively numeric; numeric columns are stored raw.
C6_ContainerLayout ==
    saved =>
        /\ h5file.exists
        /\ DOMAIN h5file.groups = DOMAIN data
        /\ \A name \in DOMAIN data :
              LET g == h5file.groups[name] IN
              /\ DOMAIN g.datasets = DOMAIN data[name]
              /\ DOMAIN g.attrs = {f \o MappingSuffix : f \in {c \in DOMAIN data[name] : HasText(data[name][c])}}
              /\ \A f \in DOMAIN data[name] :
                    ~HasText(data[name][f]) =>
                        /\ (f \o MappingSuffix) \notin DOMAIN g.attrs
                        /\ g.datasets[f] = [i \in DOMAIN data[name][f] |-> data[name][f][i][2][1]]

C6_Witness ==
    /\ saved
    /\ DOMAIN data = {"events", "messages"}
    /\ \E name \in DOMAIN data : \E f, c \in DOMAIN data[name] :
          /\ HasText(data[name][f])
          /\ ~HasText(data[name][c])
          /\ (f \o MappingSuffix) \in DOMAIN h5file.groups[name].attrs
          /\ (c \o MappingSuffix) \notin DOMAIN h5file.groups[name].attrs

\* C9: for every column name, underscores included, load_h5 resolves the
\* attribute <column>_mapping written by save_h5 to the column <column>, and
\* loading a saved file neither fails nor decodes any other column.
C9_AttrResolvesToColumn ==
    /\ saved =>
          \A name \in DOMAIN h5file.groups : \A k \in DOMAIN h5file.groups[name].attrs :
              SplitFirst(k) \o MappingSuffix = k
    /\ LoadedSaved =>
          /\ loaded.status = "ok"
          /\ \A name \in DOMAIN data : \A f \in DOMAIN data[name] :
                IF HasText(data[name][f])
                THEN \A i \in DOMAIN loaded.tables[name][f] : loaded.tables[name][f][i][1] = "str"
                ELSE loaded.tables[name][f] = data[name][f]

(***************************************************************************)
(* The trial join as a state machine: events and messages are the           *)
(* arguments of trials2events, joined what it returned.                     *)
(***************************************************************************)
JoinInit ==
    /\ CodecIdle
    /\ ReadIdle
    /\ ConvertIdle
    /\ events \in SeqsUpTo(EventRows, MaxEvents)
    /\ messages \in SeqsUpTo(MetaRows, MaxMeta)
    /\ joined = <<>>
    /\ jpc = "start"

Trials2Events ==
    /\ jpc = "start"
    /\ joined' = trials2events(events, messages)
    /\ jpc' = "joined"
    /\ UNCHANGED <<events, messages, codecVars, readVars, convertVars>>

JoinNext == Trials2Events

JoinSpec == JoinInit /\ [][JoinNext]_vars

(***************************************************************************)
(* Properties of the trial join.                                            *)
(***************************************************************************)
TrialsOf(rows) == {rows[i].trial : i \in DOMAIN rows}
UniqueTrials(rows) == \A i, j \in DOMAIN rows : rows[i].trial = rows[j].trial => i = j

\* C2 as stated: for every events table E and trial metadata table M, also
\* an M with several rows of one trial index, the join has len(E) rows.
C2_RowCountStable == jpc = "joined" => Len(joined) = Len(events)

\* C2 as amended: the join has len(E) rows whenever no two rows of M share a
\* trial index; for any M no event is lost, and an event is repeated only
\* when M has several rows of its trial index.
C2_RowCountUniqueTrials ==
    jpc = "joined" =>
        /\ UniqueTrials(messages) => Len(joined) = Len(events)
        /\ Len(joined) >= Len(events)
        /\ Len(joined) > Len(events) =>
              \E i \in DOMAIN events : \E j, k \in DOMAIN messages :
                  j # k /\ messages[j].trial = events[i].trial
                        /\ messages[k].trial = events[i].trial

C2_Witness ==
    /\ jpc = "joined"
    /\ Len(events) = 2
    /\ Len(messages) = 2
    /\ UniqueTrials(messages)
    /\ events[1].trial \in TrialsOf(messages)
    /\ events[2].trial \notin TrialsOf(messages)
    /\ Len(joined) = 2

\* C7: a left join from the events side: every event row is in the result
\* with its event columns unchanged, an event whose trial index matches no
\* metadata row has all metadata columns missing, and a metadata row whose
\* trial index matches no event contributes no row.
C7_LeftJoin ==
    jpc = "joined" =>
        /\ \A i \in DOMAIN events : \E j \in DOMAIN joined : joined[j].left = events[i]
        /\ \A j \in DOMAIN joined :
              /\ \E i \in DOMAIN events : joined[j].left = events[i]
              /\ joined[j].left.trial \notin TrialsOf(messages) <=> joined[j].right = <<>>
              /\ joined[j].right # <<>> =>
                    /\ Len(joined[j].right) = 1
                    /\ \E k \in DOMAIN messages : joined[j].right[1] = messages[k]
                    /\ joined[j].right[1].trial = joined[j].left.trial
        /\ \A k \in DOMAIN messages :
              messages[k].trial \notin TrialsOf(events) =>
                  \A j \in DOMAIN joined : joined[j].right # <<messages[k]>>

C7_Witness ==
    /\ jpc = "joined"
    /\ \E j \in DOMAIN joined : joined[j].right = <<>>
    /\ \E j \in DOMAIN joined : joined[j].right # <<>>
    /\ \E k \in DOMAIN messages : messages[k].trial \notin TrialsOf(events)

(***************************************************************************)
(* read_edf as a state machine: recording is the file at filename, edfargs  *)
(* the arguments, ret what the call returned or raised, retPlain the same   *)
(* for the call without message_filter, decoderCalls the number of calls of *)
(* edf_read.parse_edf.                                                      *)
(***************************************************************************)
ReadInit ==
    /\ CodecIdle
    /\ JoinIdle
    /\ ConvertIdle
    /\ recording \in Recordings
    /\ edfargs \in [ignore_samples : BOOLEAN, message_filter : FilterArgs,
                    trial_marker : MarkerArgs]
    /\ ret = NotCalled
    /\ retPlain = NotCalled
    /\ decoderCalls = 0

\* read_edf(filename, ignore_samples, message_filter, trial_marker)
ReadEdf ==
    /\ ret = NotCalled
    /\ LET r == read_edf(recording, edfargs.ignore_samples, edfargs.message_filter,
                         edfargs.trial_marker)
       IN /\ ret' = r
          /\ decoderCalls' = IF r.decoded THEN decoderCalls + 1 ELSE decoderCalls
    /\ UNCHANGED <<recording, edfargs, retPlain, codecVars, joinVars, convertVars>>

\* read_edf(filename, ignore_samples, trial_marker=trial_marker)
ReadEdfNoFilter ==
    /\ retPlain = NotCalled
    /\ LET r == read_edf(recording, edfargs.ignore_samples, NoFilter, edfargs.trial_marker)
       IN /\ retPlain' = r
          /\ decoderCalls' = IF r.decoded THEN decoderCalls + 1 ELSE decoderCalls
    /\ UNCHANGED <<recording, edfargs, ret, codecVars, joinVars, convertVars>>

ReadNext == ReadEdf \/ ReadEdfNoFilter

ReadSpec == ReadInit /\ [][ReadNext]_vars

(***************************************************************************)
(* Properties of read_edf.                                                  *)
(***************************************************************************)
\* the base class of each built-in exception class involved
ExceptionBase ==
    [c \in {"RuntimeError", "FileNotFoundError", "OSError", "Exception"} |->
        IF c = "FileNotFoundError" THEN "OSError"
        ELSE IF c = "Exception" THEN "BaseException" ELSE "Exception"]

RECURSIVE IsSubclass(_, _)
IsSubclass(c, d) ==
    \/ c = d
    \/ c \in DOMAIN ExceptionBase /\ IsSubclass(ExceptionBase[c], d)

Calls == {ret, retPlain}

\* C4 as stated: when the path is no existing file, read_edf fails with a
\* FileNotFoundError-class exception, never calls the decoder and returns
\* no table.
C4_FileNotFoundBeforeDecode ==
    \A r \in Calls :
        (~recording.exists /\ r # NotCalled) =>
            /\ IsSubclass(r.status, "FileNotFoundError")
            /\ decoderCalls = 0
            /\ r.tables = NoTables

\* C4 as amended: when the path is no existing file, read_edf fails with a
\* RuntimeError, which is no FileNotFoundError-class exception, never calls
\* the decoder and returns no table.
C4_RuntimeErrorBeforeDecode ==
    \A r \in Calls :
        (~recording.exists /\ r # NotCalled) =>
            /\ r.status = "RuntimeError"
            /\ ~IsSubclass(r.status, "FileNotFoundError")
            /\ decoderCalls = 0
            /\ r.tables = NoTables

C4_Witness ==
    /\ ~recording.exists
    /\ ret.status = "RuntimeError"
    /\ retPlain.status = "RuntimeError"
    /\ decoderCalls = 0

\* the trial index in force at a time: the marker messages so far, less one
MarkersUpTo(time) ==
    {t \in 1..time : /\ recording.records[t].kind = "message"
                     /\ StartsWith(recording.records[t].text, edfargs.trial_marker)}

\* C8: decoding with and without a message filter gives every retained
\* message, and every event, the same trial index: marker messages advance
\* the counter even when the filter removes them from the Messages table.
C8_FilterKeepsSegmentation ==
    (ret.status = "ok" /\ retPlain.status = "ok") =>
        /\ \A i \in DOMAIN ret.tables.messages :
              /\ \E j \in DOMAIN retPlain.tables.messages :
                    retPlain.tables.messages[j] = ret.tables.messages[i]
              /\ ret.tables.messages[i].trial
                    = Cardinality(MarkersUpTo(ret.tables.messages[i].time)) - 1
        /\ ret.tables.events = retPlain.tables.events
        /\ \A i \in DOMAIN ret.tables.events :
              ret.tables.events[i].trial
                  = Cardinality(MarkersUpTo(ret.tables.events[i].time)) - 1

C8_Witness ==
    /\ ret.status = "ok"
    /\ retPlain.status = "ok"
    /\ \E t \in DOMAIN recording.records :
          /\ t \in MarkersUpTo(t)
          /\ \A i \in DOMAIN ret.tables.messages : ret.tables.messages[i].time # t
          /\ \E j \in DOMAIN retPlain.tables.messages : retPlain.tables.messages[j].time = t
          /\ \E i \in DOMAIN ret.tables.messages :
                ret.tables.messages[i].time > t /\ ret.tables.messages[i].trial >= 0

(***************************************************************************)
(* convert_edf as a state machine: cvargs are the parsed arguments,         *)
(* cvtables the three tables in hand, cvpc the position, outfile the file   *)
(* at outputfile.                                                           *)
(***************************************************************************)
ConvertInit ==
    /\ CodecIdle
    /\ JoinIdle
    /\ recording \in Recordings
    /\ edfargs = [ignore_samples |-> FALSE, message_filter |-> NoFilter,
                  trial_marker |-> DefaultMarker]
    /\ ret = NotCalled
    /\ retPlain = NotCalled
    /\ decoderCalls = 0
    /\ cvargs = NoArgs
    /\ cvtables = NoTables
    /\ cvpc = "start"
    /\ outfile = NoOutput

\* parse_args, read_edf and the optional join
CvRead ==
    /\ cvpc = "start"
    /\ \E args \in [pandas_hdf : BOOLEAN, ignore_samples : BOOLEAN, join : BOOLEAN] :
          LET r == read_edf(recording, args.ignore_samples, NoFilter, DefaultMarker)
          IN /\ cvargs' = args
             /\ decoderCalls' = IF r.decoded THEN decoderCalls + 1 ELSE decoderCalls
             /\ IF r.status # "ok"
                THEN /\ cvpc' = r.status
                     /\ cvtables' = cvtables
                ELSE /\ cvpc' = IF args.pandas_hdf THEN "write_events" ELSE "save_human"
                     /\ cvtables' =
                           IF args.join
                           THEN [r.tables EXCEPT
                                   !.events = trials2events(r.tables.events, r.tables.messages)]
                           ELSE r.tables
    /\ UNCHANGED <<recording, edfargs, ret, retPlain, outfile, codecVars, joinVars>>

\* the default branch: save_human_understandable is no name of the module
CvSaveHuman ==
    /\ cvpc = "save_human"
    /\ cvtables' = [cvtables EXCEPT !.messages = NumericColumns(@)]
    /\ cvpc' = "NameError"
    /\ UNCHANGED <<cvargs, outfile, readVars, codecVars, joinVars>>

CvWriteEvents ==
    /\ cvpc = "write_events"
    /\ outfile' = ToHdf(outfile, "events", cvtables.events, "w")
    /\ cvpc' = "write_samples"
    /\ UNCHANGED <<cvargs, cvtables, readVars, codecVars, joinVars>>

CvWriteSamples ==
    /\ cvpc = "write_samples"
    /\ outfile' = ToHdf(outfile, "samples", cvtables.samples, "w")
    /\ cvpc' = "write_messages"
    /\ UNCHANGED <<cvargs, cvtables, readVars, codecVars, joinVars>>

CvWriteMessages ==
    /\ cvpc = "write_messages"
    /\ outfile' = ToHdf(outfile, "messages", cvtables.messages, "w")
    /\ cvpc' = "done"
    /\ UNCHANGED <<cvargs, cvtables, readVars, codecVars, joinVars>>

ConvertNext == CvRead \/ CvSaveHuman \/ CvWriteEvents \/ CvWriteSamples \/ CvWriteMessages

ConvertSpec == ConvertInit /\ [][ConvertNext]_vars

(***************************************************************************)
(* Properties of convert_edf.                                               *)
(***************************************************************************)
\* C10: with --pandas_hdf, once the three writes have finished the output
\* file holds the events, samples and messages tables.
C10_AllThreeTablesKept ==
    (cvpc = "done" /\ cvargs.pandas_hdf) =>
        /\ outfile.exists
        /\ {"events", "samples", "messages"} \subseteq DOMAIN outfile.tables

====
